---- MODULE Spec2Model ----
(***************************************************************************)
(* Expense tracker front end (Next.js pages router) and the REST back end  *)
(* it calls.  The React components and the API client are translated from  *)
(* the sources; the back end (validator, money codec, record store, query  *)
(* engine) is not part of the front-end sources and is modelled from its   *)
(* specification and from the README's description of the API.             *)
(*                                                                         *)
(* Conventions                                                             *)
(*  - a text typed into an input is a sequence of one-character strings;   *)
(*  - a JavaScript number holding a currency amount is an integer count    *)
(*    of thousandths (10.555 is 10555), exact for the texts used here;     *)
(*  - the value of an <input type="date"> is <<>> (empty) or <<y, m, d>>;  *)
(*  - null is <<>> for the error message and NoKey for the key.            *)
(***************************************************************************)
EXTENDS Integers, Sequences, FiniteSets, TLC

VARIABLES
    \* ---- back end ----
    store,          \* the expense collection: a set of records
    nextId,         \* next id / created_at the store hands out
    \* ---- network: POST /expenses calls made by ExpenseForm ----
    posts,          \* the create calls not yet finished, with their progress
    \* ---- ExpenseForm (one mounted instance at a time) ----
    amount, category, description, date,
    isSubmitting, error, currentIdempotencyKey,
    rendered,       \* the state values captured by the committed render
    \* ---- Home ----
    showForm, refreshTrigger,
    \* ---- environment ----
    mount,          \* history: the mounted ExpenseForm instance, named by the
                    \* first key it generated (NoKey: none yet)
    keysUsed,       \* keys generateIdempotencyKey has returned so far
    expenseNo,      \* history: which expense the user is entering
    origin,         \* history: origin[id] is the create call that inserted id
    returned,       \* history: what POST /expenses has answered
    sent,           \* history: the create calls handleSubmit has made
    page,           \* history: how often the page has been loaded
    \* ---- GET /expenses as a function ----
    query,          \* the params the last getExpenses call was given
    response,       \* what it returned
    charts,         \* SpendingCharts: its state and its getStats call while
                    \* the charts tab is shown, <<>> while it is not
    \* ---- ExpenseList ----
    expenses, isLoading, listError,
    categoryFilter, sortOrder,
    currentPage, totalPages, totalItems,
    editingExpense, editForm, isEditSubmitting,
    deletingId,
    timers,         \* some setTimeout callback of handleDeleteClick is
                    \* still to run
    shown,          \* history: the closure of the fetchExpenses call whose
                    \* response expenses holds (<<>>: none yet)
    filterChanged,  \* history: the user's last filter, sort, page or retry
                    \* action was a change of the filter or the sort order,
                    \* made while no fetch was in flight
    csv,            \* the file exportToCSV has produced last (<<>>: none),
                    \* with the closure of the handleExportCSV call
    \* ---- network: the calls made by ExpenseList ----
    calls,          \* the calls not yet finished, with their progress
    \* ---- bound ----
    callsLeft       \* requests the user may still cause in this behaviour

formVars == <<amount, category, description, date, isSubmitting, error,
              currentIdempotencyKey, rendered>>
homeVars == <<showForm, refreshTrigger>>
serverVars == <<store, nextId>>
createVars == <<posts, amount, category, description, date, isSubmitting,
                error, currentIdempotencyKey, rendered, showForm,
                refreshTrigger, mount, keysUsed, expenseNo, origin,
                returned, sent, page>>
queryVars == <<query, response>>

chartVars == <<charts>>
listVars == <<expenses, isLoading, listError, categoryFilter, sortOrder,
              currentPage, totalPages, totalItems, editingExpense, editForm,
              isEditSubmitting, deletingId, timers, shown, filterChanged, csv,
      calls>>
vars == <<serverVars, createVars, queryVars, chartVars, listVars, callsLeft>>

----------------------------------------------------------------------------
(* Bounds of the model *)

MaxPosts == 2       \* create calls sent in one behaviour of Spec
MaxFormPosts == 1   \* create calls sent in one behaviour of SpecForm

----------------------------------------------------------------------------
(* Texts, numbers, dates *)

Digits == <<"0", "1", "2", "3", "4", "5", "6", "7", "8", "9">>

IsDigit(c) == \E i \in 1..10 : Digits[i] = c

DigitVal(c) == (CHOOSE i \in 1..10 : Digits[i] = c) - 1

\* value of a run of digits read as an integer
RECURSIVE DigitsValue(_)
DigitsValue(s) ==
    IF s = <<>> THEN 0
    ELSE 10 * DigitsValue(SubSeq(s, 1, Len(s) - 1)) + DigitVal(s[Len(s)])

\* length of the longest prefix of s made of digits
RECURSIVE DigitPrefix(_)
DigitPrefix(s) ==
    IF s = <<>> \/ ~IsDigit(Head(s)) THEN 0 ELSE 1 + DigitPrefix(Tail(s))

Pow10(n) == IF n = 0 THEN 1 ELSE IF n = 1 THEN 10 ELSE IF n = 2 THEN 100 ELSE 1000

NaN == [nan |-> TRUE, milli |-> 0]

Num(m) == [nan |-> FALSE, milli |-> m]

\* parseFloat: optional sign, digits, optional fraction; NaN when no digit
\* can be read.  The result is in thousandths (texts here carry at most
\* three fractional digits).
parseFloat(s) ==
    LET neg == s # <<>> /\ Head(s) = "-"
        body == IF neg THEN Tail(s) ELSE s
        ni == DigitPrefix(body)
        rest == SubSeq(body, ni + 1, Len(body))
        hasFrac == rest # <<>> /\ Head(rest) = "."
        nf == IF hasFrac THEN DigitPrefix(Tail(rest)) ELSE 0
        int == DigitsValue(SubSeq(body, 1, ni))
        frac == IF nf = 0 THEN 0
                ELSE DigitsValue(SubSeq(rest, 2, nf + 1)) * Pow10(3 - nf)
        mag == int * 1000 + frac
    IN  IF ni = 0 /\ nf = 0 THEN NaN
        ELSE Num(IF neg THEN 0 - mag ELSE mag)

isNaN(x) == x.nan

IsSpace(c) == c = " "

\* String.prototype.trim
RECURSIVE trim(_)
trim(s) ==
    IF s = <<>> THEN s
    ELSE IF IsSpace(Head(s)) THEN trim(Tail(s))
    ELSE IF IsSpace(s[Len(s)]) THEN trim(SubSeq(s, 1, Len(s) - 1))
    ELSE s

----------------------------------------------------------------------------
(* Shared types (lib/types.ts) *)

CATEGORIES == <<"Food", "Transport", "Entertainment", "Shopping",
                "Bills", "Healthcare", "Education", "Other">>

CategorySet == {CATEGORIES[i] : i \in 1..Len(CATEGORIES)}

NoKey == 0      \* idempotency_key absent (the field is optional)

\* the sort orders of the list
SortValues == {"date_desc", "date_asc"}

\* CreateExpenseInput
CreateExpenseInput(a, c, d, dt, k) ==
    [amount |-> a, category |-> c, description |-> d, date |-> dt,
     idempotency_key |-> k]

----------------------------------------------------------------------------
(* Back end: money codec, validator, record store *)

MaxDescriptionLength == 500

\* toMinorUnits is defined for a positive amount with at most two
\* fractional digits
PrecisionOk(milli) == milli % 10 = 0

RangeOk(milli) == milli > 0

toMinorUnits(milli) == milli \div 10

\* a conversion that divides in whole numbers and loses the cents
toDecimalWhole(minor) == (minor \div 100) * 1000

toDecimal(minor) == minor * 10

IsLeap(y) == (y % 4 = 0 /\ y % 100 # 0) \/ y % 400 = 0

DaysIn(y, m) ==
    IF m = 2 THEN (IF IsLeap(y) THEN 29 ELSE 28)
    ELSE IF m \in {4, 6, 9, 11} THEN 30 ELSE 31

\* YYYY-MM-DD denoting a real calendar date
IsValidDate(dt) ==
    /\ Len(dt) = 3
    /\ dt[1] \in 0..9999
    /\ dt[2] \in 1..12
    /\ dt[3] \in 1..DaysIn(dt[1], dt[2])

\* a validator that checks the amount only
validateAmountOnly(input) ==
    {f \in {"amount"} : ~(PrecisionOk(input.amount) /\ RangeOk(input.amount))}

\* validate: the set of violated fields (all of them, not the first)
validate(input) ==
    {f \in {"amount", "category", "description", "date"} :
        \/ f = "amount" /\ ~(PrecisionOk(input.amount) /\ RangeOk(input.amount))
        \/ f = "category" /\ input.category \notin CategorySet
        \/ f = "description" /\ ( \/ trim(input.description) = <<>>
                                  \/ Len(trim(input.description)) > MaxDescriptionLength )
        \/ f = "date" /\ ~IsValidDate(input.date)}

\* details[] of the 400 response, in field order
Details(violations) ==
    LET order == <<"amount", "category", "description", "date">>
    IN  SelectSeq(order, LAMBDA f : f \in violations)

\* the record a create inserts
NewRecord(input, id) ==
    [id |-> id,
     amount_minor |-> toMinorUnits(input.amount),
     category |-> input.category,
     description |-> input.description,
     date |-> input.date,
     created_at |-> id,
     idempotency_key |-> input.idempotency_key]

\* lookup by idempotency key (unique index)
ByKey(s, k) == {r \in s : k # NoKey /\ r.idempotency_key = k}

\* the Expense a response carries: decimal amount, no key
Expense(r) ==
    [id |-> r.id, amount |-> toDecimal(r.amount_minor), category |-> r.category,
     description |-> r.description, date |-> r.date, created_at |-> r.created_at]

----------------------------------------------------------------------------
(* API client (lib/api.ts) *)

\* generateIdempotencyKey: `${Date.now()}-${Math.random()...}`, taken to
\* be collision free: the n-th call returns the n-th key
generateIdempotencyKey(n) == n + 1

\* createExpense that leaves the key out of the body
createExpenseNoKey(input) ==
    [method |-> "POST", endpoint |-> "/expenses",
     body |-> [input EXCEPT !.idempotency_key = NoKey]]

\* createExpense: POST /expenses with the input as JSON body
createExpense(input) ==
    [method |-> "POST", endpoint |-> "/expenses", body |-> input]

\* request: what the call throws for a response that is not ok
RequestError(resp) ==
    IF resp.details # <<>> THEN resp.details
    ELSE IF resp.error # "" THEN <<resp.error>>
    ELSE <<"Request failed">>

\* a check that takes every status below 500 for a success
IsOkBelow500(status) == status \in 200..499

\* response.ok
IsOk(status) == status \in 200..299

----------------------------------------------------------------------------
(* Back end: query engine (GET /expenses) *)

\* dates compare as year, month, day
DateLess(a, b) ==
    \/ a[1] < b[1]
    \/ a[1] = b[1] /\ a[2] < b[2]
    \/ a[1] = b[1] /\ a[2] = b[2] /\ a[3] < b[3]

\* a comes before b: by date, descending unless date_asc is asked for;
\* equal dates by created_at ascending
Before(a, b, sort) ==
    \/ IF sort = "date_asc" THEN DateLess(a.date, b.date)
                            ELSE DateLess(b.date, a.date)
    \/ a.date = b.date /\ a.created_at < b.created_at

RECURSIVE SortRecords(_, _)
SortRecords(S, sort) ==
    IF S = {} THEN <<>>
    ELSE LET first == CHOOSE r \in S : \A q \in S \ {r} : Before(r, q, sort)
         IN  <<first>> \o SortRecords(S \ {first}, sort)

Has(qs, k) == k \in DOMAIN qs

\* exact match on category when supplied, otherwise all records
Matching(s, qs) ==
    IF Has(qs, "category") THEN {r \in s : r.category = qs.category} ELSE s

Ceil(total, n) == (total + n - 1) \div n

Min(a, b) == IF a < b THEN a ELSE b

\* query: filter, sort, paginate.  sort defaults to date_desc, page to 1;
\* without a limit there is no page boundary.
Query(s, qs) ==
    LET sort == IF Has(qs, "sort") THEN qs.sort ELSE "date_desc"
        all == SortRecords(Matching(s, qs), sort)
        total == Len(all)
        pg == IF Has(qs, "page") THEN qs.page ELSE 1
        limit == IF Has(qs, "limit") THEN qs.limit
                 ELSE IF total = 0 THEN 1 ELSE total
        from == (pg - 1) * limit + 1
        to == Min(pg * limit, total)
        items == SubSeq(all, from, to)
    IN  [data |-> [i \in 1..Len(items) |-> Expense(items[i])],
         total |-> total, page |-> pg, limit |-> limit,
         totalPages |-> Ceil(total, limit)]

----------------------------------------------------------------------------
(* API client: getExpenses; ExpenseList: the params of fetchExpenses *)

\* a member of params that is undefined, '' or 0 is not sent (an absent
\* member is written '' or 0 here)
Truthy(k, v) == IF k \in {"page", "limit"} THEN v # 0 ELSE v # ""

\* getExpenses that sends no page
getExpensesNoPage(params) ==
    LET keys == {k \in DOMAIN params : Truthy(k, params[k]) /\ k # "page"}
    IN  [endpoint |-> "/expenses", search |-> [k \in keys |-> params[k]]]

\* getExpenses that sends the category whatever it is
getExpensesAnyCategory(params) ==
    LET keys == {k \in DOMAIN params : Truthy(k, params[k]) \/ k = "category"}
    IN  [endpoint |-> "/expenses", search |-> [k \in keys |-> params[k]]]

\* getExpenses that leaves the sort out
getExpensesNoSort(params) ==
    LET keys == {k \in DOMAIN params : Truthy(k, params[k]) /\ k # "sort"}
    IN  [endpoint |-> "/expenses", search |-> [k \in keys |-> params[k]]]

\* getExpenses: the search params of the GET
getExpenses(params) ==
    LET keys == {k \in DOMAIN params : Truthy(k, params[k])}
    IN  [endpoint |-> "/expenses", search |-> [k \in keys |-> params[k]]]

itemsPerPage == 10

\* the params fetchExpenses builds
FetchParams(cf, so, cp) ==
    [category |-> cf, sort |-> so, page |-> cp, limit |-> itemsPerPage]

----------------------------------------------------------------------------
(* ExpenseForm *)

Today == <<2024, 1, 15>>

AmountTexts == { <<>>, <<"0">>, <<"-", "5">>,
                 <<"1", "0", ".", "5", "0">>,
                 <<"1", "0", ".", "5", "5", "5">> }

\* the amounts typed where only the retries matter
RetryAmountTexts == { <<"1", "0", ".", "5", "0">>,
                      <<"1", "0", ".", "5", "5", "5">> }

DescriptionTexts == { <<>>, <<" ">>, <<" ", "L">> }

RetryDescriptionTexts == { <<>>, <<" ", "L">> }

DateValues == { <<>>, Today }

UserCategories == { "Food", "Transport" }

InitialForm ==
    [amount |-> <<>>, category |-> CATEGORIES[1], description |-> <<>>,
     date |-> Today, isSubmitting |-> FALSE, error |-> <<>>,
     currentIdempotencyKey |-> NoKey]

Snapshot ==
    [amount |-> amount, category |-> category, description |-> description,
     date |-> date, isSubmitting |-> isSubmitting, error |-> error,
     currentIdempotencyKey |-> currentIdempotencyKey]

Committed == rendered = Snapshot

\* the component's state becomes f, rendered or not
SetForm(f) ==
    /\ amount' = f.amount
    /\ category' = f.category
    /\ description' = f.description
    /\ date' = f.date
    /\ isSubmitting' = f.isSubmitting
    /\ error' = f.error
    /\ currentIdempotencyKey' = f.currentIdempotencyKey

\* handleSubmit's checks without the one on the amount
FormCheckNoAmount(f) ==
    IF trim(f.description) = <<>>
    THEN <<"Please enter a description">>
    ELSE IF f.date = <<>>
    THEN <<"Please select a date">>
    ELSE <<>>

\* the checks of handleSubmit, in order: the message of the first that
\* fails, <<>> when all pass
FormCheck(f) ==
    LET amountNum == parseFloat(f.amount)
    IN  IF isNaN(amountNum) \/ amountNum.milli <= 0
        THEN <<"Please enter a valid amount greater than 0">>
        ELSE IF trim(f.description) = <<>>
        THEN <<"Please enter a description">>
        ELSE IF f.date = <<>>
        THEN <<"Please select a date">>
        ELSE <<>>

\* the key handleSubmit sends: the one in state, or a fresh one
SubmitKey(f, n) ==
    IF f.currentIdempotencyKey # NoKey THEN f.currentIdempotencyKey
    ELSE generateIdempotencyKey(n)

\* the input handleSubmit builds
SubmitInput(f, key) ==
    CreateExpenseInput(parseFloat(f.amount).milli, f.category,
                       trim(f.description), f.date, key)

NewPost(req, key, m, e, pg) ==
    [req |-> req, key |-> key, mount |-> m, expenseNo |-> e, page |-> pg,
     pc |-> "sent",
     waiting |-> TRUE, status |-> 0, id |-> 0, details |-> <<>>]

\* handleSubmit up to its await.  It runs in the closure of the committed
\* render: the button is enabled there, and the values it reads are the
\* rendered ones.
HandleSubmit ==
    /\ showForm
    /\ ~rendered.isSubmitting
    /\ LET msg == FormCheck(rendered)
           key == SubmitKey(rendered, keysUsed)
       IN  \/ /\ msg # <<>>
              /\ error' = msg
              /\ UNCHANGED <<amount, category, description, date, isSubmitting,
                             currentIdempotencyKey, posts, callsLeft, keysUsed,
                             mount, sent>>
           \/ /\ msg = <<>>
              /\ callsLeft > 0
              /\ callsLeft' = callsLeft - 1
              /\ error' = <<>>
              /\ currentIdempotencyKey' =
                    IF rendered.currentIdempotencyKey = NoKey THEN key
                    ELSE currentIdempotencyKey
              /\ keysUsed' =
                    IF rendered.currentIdempotencyKey = NoKey THEN keysUsed + 1
                    ELSE keysUsed
              /\ isSubmitting' = TRUE
              /\ posts' = Append(posts,
                    NewPost(createExpense(SubmitInput(rendered, key)),
                            key, IF mount = NoKey THEN key ELSE mount,
                            expenseNo, page))
              /\ sent' = sent \cup
                    {[key |-> key, expenseNo |-> expenseNo,
                      mount |-> IF mount = NoKey THEN key ELSE mount,
                      amount |-> parseFloat(rendered.amount).milli]}
              /\ mount' = IF mount = NoKey THEN key ELSE mount
              /\ UNCHANGED <<amount, category, description, date>>
    /\ UNCHANGED <<store, nextId, rendered, showForm, refreshTrigger,
                   expenseNo, origin, returned, page>>

\* React commits the pending state: the next render's closure sees it
Commit ==
    /\ ~Committed
    /\ rendered' = Snapshot
    /\ UNCHANGED <<store, nextId, posts, amount, category, description, date,
                   isSubmitting, error, currentIdempotencyKey, showForm,
                   refreshTrigger, mount, keysUsed, expenseNo, origin,
                   callsLeft, returned, sent, page>>

\* an onChange of one of the four inputs (disabled while submitting); the
\* update is committed before the user's next event
Edit(f) ==
    /\ showForm
    /\ Committed
    /\ ~isSubmitting
    /\ f # Snapshot
    /\ SetForm(f)
    /\ rendered' = f
    /\ UNCHANGED <<store, nextId, posts, callsLeft, showForm, refreshTrigger,
                   mount, keysUsed, expenseNo, origin, returned, sent, page>>

SetAmount(texts) == \E t \in texts : Edit([Snapshot EXCEPT !.amount = t])

SetCategory == \E c \in UserCategories : Edit([Snapshot EXCEPT !.category = c])

SetDescription(texts) == \E t \in texts : Edit([Snapshot EXCEPT !.description = t])

SetDate == \E d \in DateValues : Edit([Snapshot EXCEPT !.date = d])

----------------------------------------------------------------------------
(* Home (pages/index.tsx) *)

\* the "+ Add Expense" / "Cancel" button: setShowForm(!showForm).  Showing
\* the form mounts a new ExpenseForm; hiding it discards the instance and
\* its state, while the calls it made stay in flight.
ToggleForm ==
    /\ showForm' = ~showForm
    /\ mount' = NoKey
    /\ SetForm(InitialForm)
    /\ rendered' = InitialForm
    /\ UNCHANGED <<store, nextId, posts, callsLeft, refreshTrigger, keysUsed,
                   expenseNo, origin, returned, sent, page>>

\* handleExpenseCreated
HandleExpenseCreated ==
    /\ refreshTrigger' = refreshTrigger + 1
    /\ showForm' = FALSE

\* a call is over once the back end has answered it and nobody waits for
\* the answer
Finished(p) == p.pc = "done" /\ ~p.waiting

Live(ps) == SelectSeq(ps, LAMBDA p : ~Finished(p))

\* the page is reloaded: every component is rebuilt from its initial state
\* and no pending call of the old page is resumed; the back end goes on
\* with the requests it has
Reload ==
    /\ \E i \in 1..Len(posts) : posts[i].waiting
    /\ showForm' = FALSE
    /\ refreshTrigger' = 0
    /\ SetForm(InitialForm)
    /\ rendered' = InitialForm
    /\ posts' = Live([i \in 1..Len(posts) |-> [posts[i] EXCEPT !.waiting = FALSE]])
    /\ mount' = NoKey
    /\ page' = page + 1
    /\ UNCHANGED <<store, nextId, callsLeft, keysUsed, expenseNo, origin,
                   returned, sent>>

----------------------------------------------------------------------------
(* Back end: POST /expenses.  The handler validates, looks the key up and  *)
(* inserts; the insert is subject to the unique index on the key, so a     *)
(* create that lost the race gets the existing record.                     *)

Answer(p, status, id, details) ==
    [p EXCEPT !.pc = "done", !.status = status, !.id = id, !.details = details]

\* history of an answer: the call's key, amount and status, the record's
\* id, and whether the answer was decided by the unique index
Returned(p, status, id, raced) ==
    [key |-> p.key, amount |-> p.req.body.amount, status |-> status,
     id |-> id, raced |-> raced]

\* validation and lookup
PostReceive(i) ==
    /\ posts[i].pc = "sent"
    /\ LET input == posts[i].req.body
           bad == validate(input)
           hit == ByKey(store, input.idempotency_key)
       IN  IF bad # {}
           THEN /\ posts' = Live([posts EXCEPT ![i] =
                                    Answer(@, 400, 0, Details(bad))])
                /\ returned' = returned \cup {Returned(posts[i], 400, 0, FALSE)}
           ELSE IF hit # {}
           THEN LET r == CHOOSE r \in hit : TRUE
                IN  /\ posts' = Live([posts EXCEPT ![i] =
                                        Answer(@, 200, r.id, <<>>)])
                    /\ returned' = returned \cup
                            {Returned(posts[i], 200, r.id, FALSE)}
           ELSE /\ posts' = [posts EXCEPT ![i].pc = "insert"]
                /\ UNCHANGED returned
    /\ UNCHANGED <<store, nextId, callsLeft, formVars, homeVars, mount, keysUsed,
                   expenseNo, origin, sent, page>>

\* insert under the unique index
PostInsert(i) ==
    /\ posts[i].pc = "insert"
    /\ LET input == posts[i].req.body
           hit == ByKey(store, input.idempotency_key)
       IN  IF hit # {}
           THEN LET r == CHOOSE r \in hit : TRUE
                IN  /\ posts' = Live([posts EXCEPT ![i] =
                                        Answer(@, 200, r.id, <<>>)])
                    /\ returned' = returned \cup
                            {Returned(posts[i], 200, r.id, TRUE)}
                    /\ UNCHANGED <<store, nextId, origin>>
           ELSE /\ store' = store \cup {NewRecord(input, nextId)}
                /\ nextId' = nextId + 1
                /\ origin' = Append(origin, [mount |-> posts[i].mount,
                                             expenseNo |-> posts[i].expenseNo,
                                             page |-> posts[i].page])
                /\ posts' = Live([posts EXCEPT ![i] =
                                    Answer(@, 201, nextId, <<>>)])
                /\ returned' = returned \cup
                        {Returned(posts[i], 201, nextId, FALSE)}
    /\ UNCHANGED <<callsLeft, formVars, homeVars, mount, keysUsed, expenseNo,
                   sent, page>>

----------------------------------------------------------------------------
(* ExpenseForm: handleSubmit after its await *)

\* the instance that made call p is still the mounted one
Alive(p) == showForm /\ p.mount = mount

\* the response arrives: resetForm, onExpenseCreated, finally; or catch,
\* finally.  State setters of an unmounted instance do nothing, and
\* hiding the form leaves it in its initial state.
PostResponse(i) ==
    /\ posts[i].pc = "done"
    /\ posts[i].waiting
    /\ Committed
    /\ posts' = Live([posts EXCEPT ![i].waiting = FALSE])
    /\ IF IsOk(posts[i].status)
       THEN /\ SetForm(InitialForm)
            /\ rendered' = InitialForm
            /\ HandleExpenseCreated
            /\ mount' = NoKey
            /\ expenseNo' = IF posts[i].expenseNo = expenseNo
                            THEN expenseNo + 1 ELSE expenseNo
       ELSE /\ IF Alive(posts[i])
               THEN SetForm([Snapshot EXCEPT
                        !.error = RequestError([details |-> posts[i].details,
                                                error |-> "Validation failed"]),
                        !.isSubmitting = FALSE])
               ELSE SetForm(Snapshot)
            /\ UNCHANGED <<rendered, showForm, refreshTrigger, expenseNo,
                           mount>>
    /\ UNCHANGED <<store, nextId, callsLeft, keysUsed, origin, returned, sent,
                   page>>

\* fetch rejects (the connection fails or times out, before or after the
\* back end handled the request): catch, finally
PostFails(i) ==
    /\ posts[i].waiting
    /\ Committed
    /\ posts' = Live([posts EXCEPT ![i].waiting = FALSE])
    /\ IF Alive(posts[i])
       THEN SetForm([Snapshot EXCEPT !.error = <<"Failed to fetch">>,
                                     !.isSubmitting = FALSE])
       ELSE SetForm(Snapshot)
    /\ UNCHANGED <<store, nextId, callsLeft, rendered, homeVars, mount, keysUsed,
                   expenseNo, origin, returned, sent, page>>

----------------------------------------------------------------------------
(* API client: updateExpense, deleteExpense *)

\* updateExpense: PUT /expenses/:id with the input as JSON body
updateExpense(id, input) ==
    [method |-> "PUT", endpoint |-> <<"/expenses", id>>, body |-> input]

\* deleteExpense: DELETE /expenses/:id
deleteExpense(id) ==
    [method |-> "DELETE", endpoint |-> <<"/expenses", id>>]

----------------------------------------------------------------------------
(* ExpenseList (components/ExpenseList.tsx) *)

NoId == 0           \* deletingId null

NoExpense == <<>>   \* editingExpense null

RECURSIVE NatText(_)
NatText(n) ==
    IF n < 10 THEN <<Digits[n + 1]>>
    ELSE NatText(n \div 10) \o <<Digits[(n % 10) + 1]>>

\* Number.prototype.toString of an amount: no trailing zeros, no point
\* for a whole number
toString(milli) ==
    LET f == milli % 1000
        d == <<Digits[(f \div 100) + 1], Digits[((f \div 10) % 10) + 1],
               Digits[(f % 10) + 1]>>
        frac == IF f = 0 THEN <<>>
                ELSE IF f % 100 = 0 THEN <<".", d[1]>>
                ELSE IF f % 10 = 0 THEN <<".", d[1], d[2]>>
                ELSE <<".">> \o d
    IN  NatText(milli \div 1000) \o frac

UserFilters == {"", "Food"}

\* what the user types into the modal
EditAmountTexts == { <<"0">>, <<"7">>, <<"1", "0", ".", "5", "5", "5">> }

EditDescriptionTexts == { <<>> }

\* the values of the render a callback was created in
Closure ==
    [categoryFilter |-> categoryFilter, sortOrder |-> sortOrder,
     currentPage |-> currentPage]

NewCall(kind, req, c) ==
    [kind |-> kind, req |-> req, closure |-> c, pc |-> "sent",
     status |-> 0, data |-> <<>>, error |-> "", details |-> <<>>]

\* the call fetchExpenses makes in the closure c
fetchExpenses(c) ==
    NewCall("GET",
            getExpenses(FetchParams(c.categoryFilter, c.sortOrder,
                                    c.currentPage)),
            c)

\* fetchExpenses up to its await, once for each closure of cs, the calls
\* before being base
StartFetch(base, cs) ==
    /\ calls' = base \o [i \in 1..Len(cs) |-> fetchExpenses(cs[i])]
    /\ isLoading' = TRUE
    /\ listError' = <<>>

Remove(s, i) == SubSeq(s, 1, i - 1) \o SubSeq(s, i + 1, Len(s))

\* the message of the Error a finished call throws
CallError(c) ==
    IF c.status = 0 THEN <<"Failed to fetch">>
    ELSE RequestError([details |-> c.details, error |-> c.error])

\* expenses.reduce((sum, expense) => sum + expense.amount, 0)
RECURSIVE SumAmounts(_)
SumAmounts(es) ==
    IF es = <<>> THEN 0
    ELSE SumAmounts(SubSeq(es, 1, Len(es) - 1)) + es[Len(es)].amount

\* the reduce of categoryTotals: acc[category] = (acc[category] || 0) + amount
RECURSIVE TotalsBy(_)
TotalsBy(es) ==
    IF es = <<>> THEN [c \in {} |-> 0]
    ELSE LET acc == TotalsBy(SubSeq(es, 1, Len(es) - 1))
             e == es[Len(es)]
         IN  [c \in DOMAIN acc \cup {e.category} |->
                (IF c \in DOMAIN acc THEN acc[c] ELSE 0)
                + (IF c = e.category THEN e.amount ELSE 0)]

\* the stored records the closure c asks for
MatchingRecords(c) ==
    {r \in store : c.categoryFilter = "" \/ r.category = c.categoryFilter}

RECURSIVE SumRecords(_)
SumRecords(S) ==
    IF S = {} THEN 0
    ELSE LET r == CHOOSE r \in S : TRUE
         IN  toDecimal(r.amount_minor) + SumRecords(S \ {r})

\* a total over every record that matches the filter
totalOfMatching == IF shown = <<>> THEN 0 ELSE SumRecords(MatchingRecords(shown))

\* the total the summary card shows
total == SumAmounts(expenses)

\* the totals of the category breakdown
categoryTotals == TotalsBy(expenses)

\* the table, with its buttons, is rendered
TableShown == ~isLoading /\ listError = <<>> /\ expenses # <<>>

\* the edit modal is rendered; it covers the page
ModalOpen == editingExpense # NoExpense

Rows == 1..Len(expenses)

\* no fetchExpenses call awaits its answer
NoFetchInFlight == \A i \in 1..Len(calls) : calls[i].kind # "GET"

\* onChange of the category filter; the effects that follow the render:
\* fetchExpenses, and setCurrentPage(1), which, when it changes the page,
\* leads to another render and fetchExpenses
SetCategoryFilter ==
    /\ ~ModalOpen
    /\ callsLeft > 0
    /\ callsLeft' = callsLeft - 1
    /\ \E cf \in UserFilters :
          /\ cf # categoryFilter
          /\ categoryFilter' = cf
          /\ StartFetch(calls,
                <<[Closure EXCEPT !.categoryFilter = cf]>> \o
                (IF currentPage # 1
                 THEN <<[Closure EXCEPT !.categoryFilter = cf,
                                        !.currentPage = 1]>>
                 ELSE <<>>))
    /\ currentPage' = 1
    /\ filterChanged' = NoFetchInFlight
    /\ UNCHANGED <<csv, shown, expenses, sortOrder, totalPages, totalItems,
                   editingExpense, editForm, isEditSubmitting, deletingId,
                   timers>>
    /\ UNCHANGED <<serverVars, createVars, queryVars, chartVars>>

\* onChange of the sort order, with the same effects
SetSortOrder ==
    /\ ~ModalOpen
    /\ callsLeft > 0
    /\ callsLeft' = callsLeft - 1
    /\ \E so \in SortValues :
          /\ so # sortOrder
          /\ sortOrder' = so
          /\ StartFetch(calls,
                <<[Closure EXCEPT !.sortOrder = so]>> \o
                (IF currentPage # 1
                 THEN <<[Closure EXCEPT !.sortOrder = so,
                                        !.currentPage = 1]>>
                 ELSE <<>>))
    /\ currentPage' = 1
    /\ filterChanged' = NoFetchInFlight
    /\ UNCHANGED <<csv, shown, expenses, categoryFilter, totalPages, totalItems,
                   editingExpense, editForm, isEditSubmitting, deletingId,
                   timers>>
    /\ UNCHANGED <<serverVars, createVars, queryVars, chartVars>>

\* the page becomes p: render, then the effect calls fetchExpenses
GoToPage(p) ==
    /\ currentPage' = p
    /\ StartFetch(calls, <<[Closure EXCEPT !.currentPage = p]>>)
    /\ filterChanged' = FALSE
    /\ UNCHANGED <<csv, shown, expenses, categoryFilter, sortOrder, totalPages,
                   totalItems, editingExpense, editForm, isEditSubmitting,
                   deletingId, timers>>
    /\ UNCHANGED <<serverVars, createVars, queryVars, chartVars>>

\* the Previous button
PreviousPage ==
    /\ ~ModalOpen
    /\ TableShown
    /\ totalPages > 1
    /\ currentPage # 1
    /\ callsLeft > 0
    /\ callsLeft' = callsLeft - 1
    /\ GoToPage(IF currentPage - 1 > 1 THEN currentPage - 1 ELSE 1)

\* the Next button
NextPage ==
    /\ ~ModalOpen
    /\ TableShown
    /\ totalPages > 1
    /\ currentPage # totalPages
    /\ callsLeft > 0
    /\ callsLeft' = callsLeft - 1
    /\ GoToPage(Min(totalPages, currentPage + 1))

\* the "Try again" button of the error box
TryAgain ==
    /\ ~ModalOpen
    /\ listError # <<>>
    /\ callsLeft > 0
    /\ callsLeft' = callsLeft - 1
    /\ StartFetch(calls, <<Closure>>)
    /\ filterChanged' = FALSE
    /\ UNCHANGED <<csv, shown, expenses, categoryFilter, sortOrder, currentPage,
                   totalPages, totalItems, editingExpense, editForm,
                   isEditSubmitting, deletingId, timers>>
    /\ UNCHANGED <<serverVars, createVars, queryVars, chartVars>>

\* handleEditClick on a row of the table
HandleEditClick ==
    /\ ~ModalOpen
    /\ TableShown
    /\ \E i \in Rows :
          /\ editingExpense' = expenses[i]
          /\ editForm' = [amount |-> toString(expenses[i].amount),
                          category |-> expenses[i].category,
                          description |-> expenses[i].description,
                          date |-> expenses[i].date]
    /\ UNCHANGED <<filterChanged, csv, shown, expenses, isLoading, listError, categoryFilter, sortOrder,
                   currentPage, totalPages, totalItems, isEditSubmitting,
                   deletingId, timers, calls, callsLeft>>
    /\ UNCHANGED <<serverVars, createVars, queryVars, chartVars>>

\* an onChange of one of the modal's inputs
SetEditForm(f) ==
    /\ ModalOpen
    /\ f # editForm
    /\ editForm' = f
    /\ UNCHANGED <<filterChanged, csv, shown, expenses, isLoading, listError, categoryFilter, sortOrder,
                   currentPage, totalPages, totalItems, editingExpense,
                   isEditSubmitting, deletingId, timers, calls, callsLeft>>
    /\ UNCHANGED <<serverVars, createVars, queryVars, chartVars>>

SetEditAmount(texts) ==
    \E t \in texts : SetEditForm([editForm EXCEPT !.amount = t])

SetEditCategory ==
    \E c \in UserCategories : SetEditForm([editForm EXCEPT !.category = c])

SetEditDescription(texts) ==
    \E t \in texts : SetEditForm([editForm EXCEPT !.description = t])

SetEditDate ==
    \E d \in DateValues : SetEditForm([editForm EXCEPT !.date = d])

\* the modal's Cancel button
CancelEdit ==
    /\ ModalOpen
    /\ editingExpense' = NoExpense
    /\ UNCHANGED <<filterChanged, csv, shown, expenses, isLoading, listError, categoryFilter, sortOrder,
                   currentPage, totalPages, totalItems, editForm,
                   isEditSubmitting, deletingId, timers, calls, callsLeft>>
    /\ UNCHANGED <<serverVars, createVars, queryVars, chartVars>>

\* the check of handleEditSubmit: the amount is a positive number
EditCheck(f) ==
    LET amountNum == parseFloat(f.amount)
    IN  ~(isNaN(amountNum) \/ amountNum.milli <= 0)

\* the input handleEditSubmit builds
EditInput(f) ==
    [amount |-> parseFloat(f.amount).milli, category |-> f.category,
     description |-> trim(f.description), date |-> f.date]

\* handleEditSubmit up to its await (the Save button)
HandleEditSubmit ==
    /\ ModalOpen
    /\ ~isEditSubmitting
    /\ \/ /\ ~EditCheck(editForm)
          /\ UNCHANGED <<isEditSubmitting, calls, callsLeft>>
       \/ /\ EditCheck(editForm)
          /\ callsLeft > 0
          /\ callsLeft' = callsLeft - 1
          /\ isEditSubmitting' = TRUE
          /\ calls' = Append(calls,
                NewCall("PUT",
                        updateExpense(editingExpense.id, EditInput(editForm)),
                        Closure))
    /\ UNCHANGED <<filterChanged, csv, shown, expenses, isLoading, listError, categoryFilter, sortOrder,
                   currentPage, totalPages, totalItems, editingExpense,
                   editForm, deletingId, timers>>
    /\ UNCHANGED <<serverVars, createVars, queryVars, chartVars>>

\* The timers of handleDeleteClick.  Every first click starts one, none is
\* ever cleared, all wait 3000 ms and so run in the order they were started.
\* "timers" says how many are pending: "none", "one" (the timer of the
\* latest first click) or "many" (that one and earlier ones).
TimerStarted(t) == IF t = "none" THEN "one" ELSE "many"

TimerRan(t) == IF t = "one" THEN {"none"} ELSE {"one", "many"}

\* handleDeleteClick without the confirmation: every click sends the DELETE
HandleDeleteClickAtOnce ==
    /\ ~ModalOpen
    /\ TableShown
    /\ \E i \in Rows :
          /\ callsLeft > 0
          /\ callsLeft' = callsLeft - 1
          /\ calls' = Append(calls,
                 NewCall("DELETE", deleteExpense(expenses[i].id), Closure))
          /\ deletingId' = expenses[i].id
          /\ timers' = TimerStarted(timers)
    /\ UNCHANGED <<filterChanged, csv, shown, expenses, isLoading, listError,
                   categoryFilter, sortOrder, currentPage, totalPages,
                   totalItems, editingExpense, editForm, isEditSubmitting>>
    /\ UNCHANGED <<serverVars, createVars, queryVars, chartVars>>

\* handleDeleteClick on a row: the first click asks for confirmation and
\* starts the timer, a click on the row that asks deletes
HandleDeleteClick ==
    /\ ~ModalOpen
    /\ TableShown
    /\ \E i \in Rows :
          LET id == expenses[i].id
          IN  \/ /\ deletingId = id
                 /\ callsLeft > 0
                 /\ callsLeft' = callsLeft - 1
                 /\ calls' = Append(calls,
                        NewCall("DELETE", deleteExpense(id), Closure))
                 /\ UNCHANGED <<deletingId, timers>>
              \/ /\ deletingId # id
                 /\ deletingId' = id
                 /\ timers' = TimerStarted(timers)
                 /\ UNCHANGED <<calls, callsLeft>>
    /\ UNCHANGED <<filterChanged, csv, shown, expenses, isLoading, listError,
                   categoryFilter, sortOrder, currentPage, totalPages,
                   totalItems, editingExpense, editForm, isEditSubmitting>>
    /\ UNCHANGED <<serverVars, createVars, queryVars, chartVars>>

\* a timer of handleDeleteClick runs: setDeletingId(null).  The oldest
\* pending timer runs first; after an earlier one, others may be left.
TimerFires ==
    /\ timers # "none"
    /\ timers' \in TimerRan(timers)
    /\ deletingId' = NoId
    /\ UNCHANGED <<filterChanged, csv, shown, expenses, isLoading, listError,
                   categoryFilter, sortOrder, currentPage, totalPages,
                   totalItems, editingExpense, editForm, isEditSubmitting,
                   calls, callsLeft>>
    /\ UNCHANGED <<serverVars, createVars, queryVars, chartVars>>

\* fetchExpenses after its await
GetResponse(i) ==
    /\ calls[i].kind = "GET"
    /\ calls[i].pc = "done"
    /\ calls' = Remove(calls, i)
    /\ IF IsOk(calls[i].status)
       THEN /\ expenses' = calls[i].data.data
            /\ shown' = calls[i].closure
            /\ totalPages' = calls[i].data.totalPages
            /\ totalItems' = calls[i].data.total
            /\ UNCHANGED <<filterChanged, csv, listError>>
       ELSE /\ listError' = CallError(calls[i])
            /\ UNCHANGED <<filterChanged, csv, shown, expenses, totalPages, totalItems>>
    /\ isLoading' = FALSE
    /\ UNCHANGED <<categoryFilter, sortOrder, currentPage, editingExpense,
                   editForm, isEditSubmitting, deletingId, timers, callsLeft>>
    /\ UNCHANGED <<serverVars, createVars, queryVars, chartVars>>

\* handleEditSubmit after its await: the fetchExpenses it calls is the one
\* of the render the handler was created in
PutResponse(i) ==
    /\ calls[i].kind = "PUT"
    /\ calls[i].pc = "done"
    /\ IF IsOk(calls[i].status)
       THEN /\ editingExpense' = NoExpense
            /\ StartFetch(Remove(calls, i), <<calls[i].closure>>)
       ELSE /\ listError' = CallError(calls[i])
            /\ calls' = Remove(calls, i)
            /\ UNCHANGED <<editingExpense, isLoading>>
    /\ isEditSubmitting' = FALSE
    /\ UNCHANGED <<filterChanged, csv, shown, expenses, categoryFilter, sortOrder, currentPage,
                   totalPages, totalItems, editForm, deletingId, timers,
                   callsLeft>>
    /\ UNCHANGED <<serverVars, createVars, queryVars, chartVars>>

\* handleDeleteClick after its await
DeleteResponse(i) ==
    /\ calls[i].kind = "DELETE"
    /\ calls[i].pc = "done"
    /\ IF IsOk(calls[i].status)
       THEN StartFetch(Remove(calls, i), <<calls[i].closure>>)
       ELSE /\ listError' = CallError(calls[i])
            /\ calls' = Remove(calls, i)
            /\ UNCHANGED isLoading
    /\ deletingId' = NoId
    /\ UNCHANGED <<filterChanged, csv, shown, expenses, categoryFilter, sortOrder, currentPage,
                   totalPages, totalItems, editingExpense, editForm,
                   isEditSubmitting, timers, callsLeft>>
    /\ UNCHANGED <<serverVars, createVars, queryVars, chartVars>>

\* toFixed(2) of an amount
toFixed2(milli) ==
    LET cents == (milli + 5) \div 10
    IN  NatText(cents \div 100) \o
        <<".", Digits[((cents \div 10) % 10) + 1], Digits[(cents % 10) + 1]>>

\* description.replace(/"/g, '""') between double quotes
RECURSIVE DoubleQuotes(_)
DoubleQuotes(t) ==
    IF t = <<>> THEN <<>>
    ELSE (IF Head(t) = "\"" THEN <<"\"", "\"">> ELSE <<Head(t)>>)
         \o DoubleQuotes(Tail(t))

\* the headers (the currency sign of the last one left out)
CsvHeaders == <<"Date", "Description", "Category", "Amount">>

CsvRow(e) ==
    <<e.date, <<"\"">> \o DoubleQuotes(e.description) \o <<"\"">>,
      e.category, toFixed2(e.amount)>>

\* exportToCSV: the lines of the file, the headers first
exportToCSV(es) == <<CsvHeaders>> \o [i \in 1..Len(es) |-> CsvRow(es[i])]

\* export params that ask for the first page like the list does
ExportParamsPaged(cf, so) == FetchParams(cf, so, 1)

\* the params of handleExportCSV: category (undefined when the filter is
\* empty) and sort; page and limit are absent
ExportParams(cf, so) ==
    [category |-> cf, sort |-> so, page |-> 0, limit |-> 0]

\* handleExportCSV up to its await (the Download CSV button)
HandleExportCSV ==
    /\ ~ModalOpen
    /\ expenses # <<>>
    /\ callsLeft > 0
    /\ callsLeft' = callsLeft - 1
    /\ calls' = Append(calls,
            NewCall("EXPORT",
                    getExpenses(ExportParams(categoryFilter, sortOrder)),
                    Closure))
    /\ UNCHANGED <<filterChanged, csv, shown, expenses, isLoading, listError, categoryFilter,
                   sortOrder, currentPage, totalPages, totalItems,
                   editingExpense, editForm, isEditSubmitting, deletingId,
                   timers>>
    /\ UNCHANGED <<serverVars, createVars, queryVars, chartVars>>

\* handleExportCSV after its await
ExportResponse(i) ==
    /\ calls[i].kind = "EXPORT"
    /\ calls[i].pc = "done"
    /\ calls' = Remove(calls, i)
    /\ IF IsOk(calls[i].status)
       THEN /\ csv' = [closure |-> calls[i].closure,
                       lines |-> exportToCSV(calls[i].data.data)]
            /\ UNCHANGED listError
       ELSE /\ listError' = CallError(calls[i])
            /\ UNCHANGED csv
    /\ UNCHANGED <<filterChanged, shown, expenses, isLoading, categoryFilter, sortOrder,
                   currentPage, totalPages, totalItems, editingExpense,
                   editForm, isEditSubmitting, deletingId, timers, callsLeft>>
    /\ UNCHANGED <<serverVars, createVars, queryVars, chartVars>>

\* fetch rejects: the connection fails before the request is handled
CallFails(i) ==
    /\ calls[i].pc = "sent"
    /\ calls' = [calls EXCEPT ![i].pc = "done"]
    /\ UNCHANGED <<filterChanged, csv, shown, expenses, isLoading, listError, categoryFilter, sortOrder,
                   currentPage, totalPages, totalItems, editingExpense,
                   editForm, isEditSubmitting, deletingId, timers, callsLeft>>
    /\ UNCHANGED <<serverVars, createVars, queryVars, chartVars>>

\* ExpenseList after its first render and effects
InitList(n) ==
    /\ expenses = <<>>
    /\ isLoading = TRUE
    /\ listError = <<>>
    /\ categoryFilter = ""
    /\ sortOrder = "date_desc"
    /\ currentPage = 1
    /\ totalPages = 1
    /\ totalItems = 0
    /\ editingExpense = NoExpense
    /\ editForm = [amount |-> <<>>, category |-> "", description |-> <<>>,
                   date |-> <<>>]
    /\ isEditSubmitting = FALSE
    /\ deletingId = NoId
    /\ timers = "none"
    /\ shown = <<>>
    /\ filterChanged = FALSE
    /\ csv = <<>>
    /\ calls = <<fetchExpenses([categoryFilter |-> "",
                                sortOrder |-> "date_desc",
                                currentPage |-> 1])>>
    /\ callsLeft = n

----------------------------------------------------------------------------
(* Back end: GET /expenses, PUT /expenses/:id, DELETE /expenses/:id *)

Done(c, status, data, message, details) ==
    [c EXCEPT !.pc = "done", !.status = status, !.data = data,
              !.error = message, !.details = details]

ById(s, id) == {r \in s : r.id = id}

\* an update that writes the record anew, without its idempotency key
UpdatedWithoutKey(r, input) ==
    [r EXCEPT !.amount_minor = toMinorUnits(input.amount),
              !.category = input.category,
              !.description = input.description,
              !.date = input.date,
              !.idempotency_key = NoKey]

\* the record an update leaves: the mutable fields replaced
Updated(r, input) ==
    [r EXCEPT !.amount_minor = toMinorUnits(input.amount),
              !.category = input.category,
              !.description = input.description,
              !.date = input.date]

GetServe(i) ==
    /\ calls[i].kind \in {"GET", "EXPORT"}
    /\ calls[i].pc = "sent"
    /\ calls' = [calls EXCEPT ![i] =
                    Done(@, 200, Query(store, @.req.search), "", <<>>)]
    /\ UNCHANGED <<store, nextId>>

\* validation, then the store's update
PutServe(i) ==
    /\ calls[i].kind = "PUT"
    /\ calls[i].pc = "sent"
    /\ LET input == calls[i].req.body
           bad == validate(input)
           hit == ById(store, calls[i].req.endpoint[2])
       IN  IF bad # {}
           THEN /\ calls' = [calls EXCEPT ![i] =
                        Done(@, 400, <<>>, "Validation failed", Details(bad))]
                /\ UNCHANGED store
           ELSE IF hit = {}
           THEN /\ calls' = [calls EXCEPT ![i] =
                        Done(@, 404, <<>>, "Expense not found", <<>>)]
                /\ UNCHANGED store
           ELSE LET r == CHOOSE r \in hit : TRUE
                IN  /\ store' = (store \ {r}) \cup {Updated(r, input)}
                    /\ calls' = [calls EXCEPT ![i] =
                            Done(@, 200, Expense(Updated(r, input)), "", <<>>)]
    /\ UNCHANGED nextId

DeleteServe(i) ==
    /\ calls[i].kind = "DELETE"
    /\ calls[i].pc = "sent"
    /\ LET hit == ById(store, calls[i].req.endpoint[2])
       IN  IF hit = {}
           THEN /\ calls' = [calls EXCEPT ![i] =
                        Done(@, 404, <<>>, "Expense not found", <<>>)]
                /\ UNCHANGED store
           ELSE /\ store' = store \ hit
                /\ calls' = [calls EXCEPT ![i] = Done(@, 204, <<>>, "", <<>>)]
    /\ UNCHANGED nextId

ListServer ==
    /\ \E i \in 1..Len(calls) :
          \/ GetServe(i)
          \/ PutServe(i)
          \/ DeleteServe(i)
    /\ UNCHANGED <<filterChanged, csv, shown, expenses, isLoading, listError, categoryFilter, sortOrder,
                   currentPage, totalPages, totalItems, editingExpense,
                   editForm, isEditSubmitting, deletingId, timers, callsLeft>>
    /\ UNCHANGED <<createVars, queryVars, chartVars>>

\* the list reacts to refreshTrigger: the effect calls fetchExpenses
RefreshEffect ==
    IF refreshTrigger' # refreshTrigger
    THEN /\ StartFetch(calls, <<Closure>>)
         /\ UNCHANGED <<filterChanged, csv, shown, expenses, categoryFilter, sortOrder, currentPage,
                        totalPages, totalItems, editingExpense, editForm,
                        isEditSubmitting, deletingId, timers, callsLeft>>
    ELSE UNCHANGED <<listVars, callsLeft>>

----------------------------------------------------------------------------
(* The create path: ExpenseForm, Home and POST /expenses *)

\* Home and ExpenseForm, the form holding f
InitClientWith(f, visible) ==
    /\ posts = <<>>
    /\ amount = f.amount
    /\ category = f.category
    /\ description = f.description
    /\ date = f.date
    /\ isSubmitting = f.isSubmitting
    /\ error = f.error
    /\ currentIdempotencyKey = f.currentIdempotencyKey
    /\ rendered = f
    /\ showForm = visible
    /\ refreshTrigger = 0
    /\ mount = NoKey
    /\ keysUsed = 0
    /\ expenseNo = 1
    /\ origin = <<>>
    /\ returned = {}
    /\ sent = {}
    /\ page = 1
    /\ query = <<>>
    /\ response = <<>>
    /\ charts = <<>>

\* the client after construction
InitClient == InitClientWith(InitialForm, FALSE)

InitWith(n) ==
    /\ store = {}
    /\ nextId = 1
    /\ InitClient
    /\ InitList(n)

Init == InitWith(MaxPosts)

Server ==
    \/ \E i \in 1..Len(posts) : PostReceive(i)
    \/ \E i \in 1..Len(posts) : PostInsert(i)

Client ==
    \/ HandleSubmit
    \/ Commit
    \/ ToggleForm
    \/ Reload
    \/ \E i \in 1..Len(posts) : PostResponse(i)
    \/ \E i \in 1..Len(posts) : PostFails(i)

\* the user retypes amount and description between the attempts
Next ==
    /\ \/ Client
       \/ Server
       \/ SetAmount(RetryAmountTexts)
       \/ SetDescription(RetryDescriptionTexts)
    /\ UNCHANGED <<queryVars, chartVars, listVars>>

Spec == Init /\ [][Next]_vars

----------------------------------------------------------------------------
(* The form with all four inputs *)

InitForm == InitWith(MaxFormPosts)

NextForm ==
    /\ \/ Client
       \/ Server
       \/ SetAmount(AmountTexts)
       \/ SetCategory
       \/ SetDescription(DescriptionTexts)
       \/ SetDate
    /\ UNCHANGED <<queryVars, chartVars, listVars>>

SpecForm == InitForm /\ [][NextForm]_vars

----------------------------------------------------------------------------
(* Idempotent create *)

Answers(k) == {a \in returned : a.key = k /\ a.status # 400}

KeysSent == {a.key : a \in sent}

\* C1: at most one record per idempotency key.  However often a create
\* call is repeated with the same key, the store holds one record with
\* that key, every answered call got that record's id, and one of the
\* calls (the first to get through) inserted it.
C1_OneRecordPerKey ==
    \A k \in KeysSent :
        /\ Cardinality(ByKey(store, k)) <= 1
        /\ \A a \in Answers(k) :
              /\ \E r \in ByKey(store, k) : r.id = a.id
              /\ \E b \in Answers(k) : b.status = 201

\* a key was sent twice, and both calls were answered with the one record
C1_Witness ==
    \E k \in KeysSent :
        /\ Cardinality(ByKey(store, k)) = 1
        /\ \E a, b \in Answers(k) : a.status = 201 /\ b.status = 200

\* C4: concurrent creates with the same new key insert one record: one
\* caller gets 201 (isNew), every other caller 200, all with the same id,
\* also when the loser had already looked the key up and found nothing.
C4_ConcurrentCreateOnce ==
    \A k \in KeysSent :
        /\ Cardinality({a \in Answers(k) : a.status = 201}) <= 1
        /\ \A a, b \in Answers(k) : a.id = b.id
        /\ \A a \in Answers(k) :
              a.raced => \E b \in Answers(k) : b.status = 201 /\ ~b.raced
        /\ Cardinality({i \in 1..Len(origin) :
                           \E r \in ByKey(store, k) : r.id = i}) <= 1

\* two creates with one key were past the lookup together, and the unique
\* index decided
C4_Witness ==
    \E a \in returned : a.raced /\ a.status = 200

C5_ReloadOneRecord ==
    \A i, j \in 1..Len(origin) :
        (origin[i].expenseNo = origin[j].expenseNo
            /\ origin[i].page # origin[j].page) => i = j

----------------------------------------------------------------------------
(* Validation of the amount *)

AmountOk(milli) == PrecisionOk(milli) /\ RangeOk(milli)

\* C6: an amount of 0, a negative amount or one with more than two
\* fractional digits never gets into the store: the form sends no call
\* for an amount that is not positive, the back end answers 400 for any
\* amount it is sent that is not a positive two-decimal one, and nothing
\* is stored for it; 10.50 is accepted.
C6_InvalidAmountRejected ==
    /\ \A a \in sent : a.amount > 0
    /\ \A a \in returned :
          /\ ~AmountOk(a.amount) => a.status = 400
          /\ a.amount = 10500 => a.status \in {200, 201}
    /\ \A p \in {posts[i] : i \in 1..Len(posts)} :
          ~AmountOk(p.req.body.amount) => p.pc # "insert" /\ p.status \in {0, 400}
    /\ \A r \in store : r.amount_minor > 0 /\ toDecimal(r.amount_minor) = 10500

\* 10.555 was submitted and refused, and nothing was stored
C6_Witness ==
    /\ \E a \in returned : a.amount = 10555 /\ a.status = 400
    /\ store = {}
    /\ error = <<"amount">>

\* 10.50 was submitted and stored
C6_WitnessAccepted ==
    \E r \in store : r.amount_minor = 1050

----------------------------------------------------------------------------
(* Aggregation engine: GET /stats as a function of the store *)

\* the calendar month (YYYY-MM) of a date
MonthOf(d) == <<d[1], d[2]>>

MonthLess(a, b) == a[1] < b[1] \/ (a[1] = b[1] /\ a[2] < b[2])

RECURSIVE SumMinor(_)
SumMinor(S) ==
    IF S = {} THEN 0
    ELSE LET r == CHOOSE r \in S : TRUE
         IN  r.amount_minor + SumMinor(S \ {r})

RECURSIVE SortMonths(_)
SortMonths(M) ==
    IF M = {} THEN <<>>
    ELSE LET m == CHOOSE m \in M : \A n \in M \ {m} : MonthLess(m, n)
         IN  <<m>> \o SortMonths(M \ {m})

\* one entry per month with a record, in chronological order; amounts are
\* summed in minor units and exposed as decimals
monthlyTotals(s) ==
    LET months == SortMonths({MonthOf(r.date) : r \in s})
    IN  [i \in 1..Len(months) |->
            LET bucket == {r \in s : MonthOf(r.date) = months[i]}
            IN  [month |-> months[i], total |-> toDecimal(SumMinor(bucket)),
                 count |-> Cardinality(bucket)]]

Orderings(S) ==
    {f \in [1..Cardinality(S) -> S] :
        \A i, j \in 1..Cardinality(S) : i # j => f[i] # f[j]}

\* one entry per category with a record, in no particular order: the
\* sequences the engine may return
categoryTotalsOf(s) ==
    Orderings({ LET bucket == {r \in s : r.category = c}
                IN  [category |-> c, total |-> toDecimal(SumMinor(bucket)),
                     count |-> Cardinality(bucket)] :
                c \in {r.category : r \in s} })

----------------------------------------------------------------------------
(* API client: getStats; Home: the tabs; SpendingCharts *)

getStats == [endpoint |-> "/stats"]

NoCharts == <<>>

\* setActiveTab('charts'): SpendingCharts mounts and its effect runs
\* fetchStats up to the await
ShowCharts ==
    /\ charts = NoCharts
    /\ charts' = [stats |-> <<>>, isLoading |-> TRUE, error |-> <<>>,
                  call |-> getStats]
    /\ UNCHANGED <<serverVars, createVars, queryVars, listVars, callsLeft>>

\* setActiveTab('expenses'): SpendingCharts unmounts
ShowExpenses ==
    /\ charts # NoCharts
    /\ charts' = NoCharts
    /\ UNCHANGED <<serverVars, createVars, queryVars, listVars, callsLeft>>

\* GET /stats is answered and fetchStats goes on after the await
StatsResponse ==
    /\ charts # NoCharts
    /\ charts.call # <<>>
    /\ charts.call.endpoint = "/stats"
    /\ \E cats \in categoryTotalsOf(store) :
          charts' = [stats |-> [monthly |-> monthlyTotals(store),
                                categories |-> cats],
                     isLoading |-> FALSE, error |-> <<>>, call |-> <<>>]
    /\ UNCHANGED <<serverVars, createVars, queryVars, listVars, callsLeft>>

\* fetch rejects and fetchStats goes on in its catch
StatsFails ==
    /\ charts # NoCharts
    /\ charts.call # <<>>
    /\ charts' = [charts EXCEPT !.error = <<"Failed to fetch">>,
                                !.isLoading = FALSE, !.call = <<>>]
    /\ UNCHANGED <<serverVars, createVars, queryVars, listVars, callsLeft>>

\* the charts are drawn: neither loading nor failed, and there is data
ChartsDrawn ==
    /\ charts # NoCharts
    /\ ~charts.isLoading
    /\ charts.error = <<>>
    /\ charts.stats # <<>>
    /\ ~(charts.stats.monthly = <<>> /\ charts.stats.categories = <<>>)

RECURSIVE SumTotals(_)
SumTotals(entries) ==
    IF entries = <<>> THEN 0
    ELSE Head(entries).total + SumTotals(Tail(entries))

\* stats.monthly.slice(-6): the months the trend shows
MonthsShown ==
    LET m == charts.stats.monthly
    IN  IF Len(m) <= 6 THEN m ELSE SubSeq(m, Len(m) - 5, Len(m))

\* a total taken over the months the trend shows
totalSpendingShown == SumTotals(MonthsShown)

\* stats.categories.reduce((sum, c) => sum + c.total, 0)
totalSpending == SumTotals(charts.stats.categories)

----------------------------------------------------------------------------
(* GET /expenses as a function of the store and the params *)

MaxSeeds == 4       \* records the store is drawn from
MaxLimit == 3       \* largest page size asked for

SeedCategories == <<"Food", "Transport">>

SeedDates == <<<<2024, 1, 10>>, <<2024, 1, 15>>>>

SeedAmounts == <<10050, 5000, 2000>>

\* the i-th record of a store filled earlier
Seed(i) ==
    [id |-> i,
     amount_minor |-> SeedAmounts[((i - 1) % 3) + 1],
     category |-> SeedCategories[(((i - 1) \div 2) % 2) + 1],
     description |-> <<"L">>,
     date |-> SeedDates[((i - 1) % 2) + 1],
     created_at |-> i,
     idempotency_key |-> NoKey]

QueryCategories == {"", "Food", "Transport", "Bills"}

\* what a caller may pass to getExpenses
QueryParams ==
    [category : QueryCategories, sort : SortValues \cup {""},
     page : 1..(MaxSeeds + 1), limit : 1..MaxLimit]
    \cup [category : QueryCategories, sort : SortValues \cup {""},
          page : {0}, limit : {0}]

InitQuery ==
    /\ InitClient
    /\ \E ids \in SUBSET (1..MaxSeeds) : store = {Seed(i) : i \in ids}
    /\ nextId = MaxSeeds + 1
    /\ InitList(0)

\* a call of api.getExpenses and its answer
CallGetExpenses ==
    /\ \E params \in QueryParams :
          /\ query' = params
          /\ response' = Query(store, getExpenses(params).search)
    /\ UNCHANGED <<serverVars, createVars, chartVars, listVars, callsLeft>>

\* the call fetchExpenses makes
CallFetchExpenses ==
    /\ \E cf \in QueryCategories, so \in SortValues, cp \in 1..2 :
          /\ query' = FetchParams(cf, so, cp)
          /\ response' = Query(store, getExpenses(query').search)
    /\ UNCHANGED <<serverVars, createVars, chartVars, listVars, callsLeft>>

NextQuery ==
    \/ CallGetExpenses
    \/ CallFetchExpenses

SpecQuery == InitQuery /\ [][NextQuery]_vars

----------------------------------------------------------------------------
(* Pagination and filtering *)

Answered == response # <<>>

Paginated == Answered /\ query.page >= 1 /\ query.limit >= 1

\* the stored records the query's category selects
Selected ==
    {r \in store : query.category = "" \/ r.category = query.category}

SortAsked == IF query.sort = "" THEN "date_desc" ELSE query.sort

\* position of a stored record among the selected ones in sorted order
Position(r) == 1 + Cardinality({q \in Selected : Before(q, r, SortAsked)})

Stored(e) == CHOOSE r \in store : r.id = e.id

\* C8: for a paginated query with page p >= 1 and page size n >= 1 over
\* the selected records in sorted order, total is their number, totalPages
\* is ceil(total / n), page p <= totalPages holds exactly the positions
\* (p-1)*n + 1 .. min(p*n, total), and a page beyond totalPages (page
\* totalPages + 1 in particular) is empty with the same total and
\* totalPages.
C8_Pagination ==
    Paginated =>
        LET p == query.page
            n == query.limit
            count == Cardinality(Selected)
            last == IF p * n < count THEN p * n ELSE count
            size == IF last >= (p - 1) * n THEN last - (p - 1) * n ELSE 0
        IN  /\ response.total = count
            /\ response.page = p
            /\ response.limit = n
            /\ response.totalPages * n >= count
            /\ (response.totalPages - 1) * n < count
            /\ Len(response.data) = size
            /\ \A i \in 1..Len(response.data) :
                  /\ \E r \in Selected : r.id = response.data[i].id
                  /\ Position(Stored(response.data[i])) = (p - 1) * n + i
            /\ p > response.totalPages => response.data = <<>>

\* a second page that is the last one and is not full
C8_Witness ==
    /\ Paginated
    /\ query.page = 2
    /\ response.totalPages = 2
    /\ Len(response.data) = 1
    /\ query.limit = 2

\* page totalPages + 1 of a non-empty listing
C8_WitnessBeyond ==
    /\ Paginated
    /\ response.total > 0
    /\ query.page = response.totalPages + 1
    /\ response.data = <<>>

\* C9: a query with a category returns only records of exactly that
\* category and counts all of them in total; a query whose category is
\* empty, as the list sends it when the filter is the empty value, is over
\* all stored records.
C9_CategoryFilter ==
    Answered =>
        /\ query.category # "" =>
              /\ \A i \in 1..Len(response.data) :
                    response.data[i].category = query.category
              /\ response.total =
                    Cardinality({r \in store : r.category = query.category})
        /\ query.category = "" =>
              /\ response.total = Cardinality(store)
              /\ query.limit = 0 =>
                    {response.data[i].id : i \in 1..Len(response.data)}
                        = {r.id : r \in store}

\* a filtered listing that leaves records of another category out
C9_Witness ==
    /\ Answered
    /\ query.category = "Food"
    /\ response.total >= 1
    /\ response.total < Cardinality(store)

\* the list's query with the empty filter over records of two categories
C9_WitnessAll ==
    /\ Answered
    /\ query.category = ""
    /\ query.limit = itemsPerPage
    /\ \E i, j \in 1..Len(response.data) :
          response.data[i].category # response.data[j].category

----------------------------------------------------------------------------
(* The list over a filled store: filter, sort and pages *)

MaxListCalls == 2   \* operations the user starts in one behaviour

\* the records in the store at the start: two pages of them
StoredIds == 1..(itemsPerPage + 1)

InitStored ==
    /\ store = {Seed(i) : i \in StoredIds}
    /\ nextId = itemsPerPage + 2
    /\ InitClient
    /\ InitList(MaxListCalls)

NextList ==
    \/ SetCategoryFilter
    \/ SetSortOrder
    \/ PreviousPage
    \/ NextPage
    \/ TryAgain
    \/ HandleExportCSV
    \/ \E i \in 1..Len(calls) : GetResponse(i)
    \/ \E i \in 1..Len(calls) : ExportResponse(i)
    \/ \E i \in 1..Len(calls) : CallFails(i)
    \/ ListServer

SpecList == InitStored /\ [][NextList]_vars

----------------------------------------------------------------------------
(* Create, update and delete: the form, the edit modal, the delete button *)

MaxWrites == 1      \* creates, updates and deletes sent in one behaviour

\* the forms the user has filled in: they pass handleSubmit's checks
FilledForms ==
    {[InitialForm EXCEPT !.amount = a, !.description = <<" ", "L">>] :
        a \in RetryAmountTexts}

\* the records in the store at the start
WriteIds == {1, 2}

\* the user has opened the form and filled it in; the list's first fetch
\* is on its way
InitWrites ==
    /\ store = {Seed(i) : i \in WriteIds}
    /\ nextId = Cardinality(WriteIds) + 1
    /\ \E f \in FilledForms : InitClientWith(f, TRUE)
    /\ InitList(MaxWrites)

\* the modal covers the page, so the form is submitted only while it is
\* closed; a successful create refreshes the list
NextWrites ==
    \/ /\ \/ ~ModalOpen /\ HandleSubmit
          \/ Commit
          \/ Server
       /\ UNCHANGED <<queryVars, chartVars, listVars>>
    \/ /\ \E i \in 1..Len(posts) : PostResponse(i)
       /\ RefreshEffect
       /\ UNCHANGED <<queryVars, chartVars>>
    \/ HandleEditClick
    \/ SetEditAmount(EditAmountTexts)
    \/ SetEditDescription(EditDescriptionTexts)
    \/ HandleEditSubmit
    \/ HandleDeleteClick
    \/ TimerFires
    \/ \E i \in 1..Len(calls) : GetResponse(i)
    \/ \E i \in 1..Len(calls) : PutResponse(i)
    \/ \E i \in 1..Len(calls) : DeleteResponse(i)
    \/ ListServer

SpecWrites == InitWrites /\ [][NextWrites]_vars

----------------------------------------------------------------------------
(* The totals of the list *)

RECURSIVE SumOfRows(_)
SumOfRows(rows) ==
    IF rows = {} THEN 0
    ELSE LET i == CHOOSE i \in rows : TRUE
         IN  expenses[i].amount + SumOfRows(rows \ {i})

RECURSIVE SumOfTotals(_)
SumOfTotals(cs) ==
    IF cs = {} THEN 0
    ELSE LET c == CHOOSE c \in cs : TRUE
         IN  categoryTotals[c] + SumOfTotals(cs \ {c})

RowsOf(c) == {i \in 1..Len(expenses) : expenses[i].category = c}

\* C10: the list's total is the sum of the amounts of the expenses state
\* (the page last returned), there is a category total for exactly the
\* categories on that page, each the sum of the page's amounts in the
\* category, the category totals add up to the total, and when more
\* records match the filter than the page holds the total is not the
\* total over all of them.
C10_TotalsOverPage ==
    /\ total = SumOfRows(1..Len(expenses))
    /\ DOMAIN categoryTotals = {expenses[i].category : i \in 1..Len(expenses)}
    /\ \A c \in DOMAIN categoryTotals : categoryTotals[c] = SumOfRows(RowsOf(c))
    /\ SumOfTotals(DOMAIN categoryTotals) = total
    /\ (shown # <<>> /\ Cardinality(MatchingRecords(shown)) > Len(expenses))
          => total # SumRecords(MatchingRecords(shown))

\* a full first page of a longer listing, with two categories on it
C10_Witness ==
    /\ shown # <<>>
    /\ Len(expenses) = itemsPerPage
    /\ totalItems > itemsPerPage
    /\ Cardinality(DOMAIN categoryTotals) = 2
    /\ total < SumRecords(MatchingRecords(shown))

----------------------------------------------------------------------------
(* No invalid writes *)

RecordFields ==
    {"id", "amount_minor", "category", "description", "date", "created_at",
     "idempotency_key"}

ValidRecord(r) ==
    /\ DOMAIN r = RecordFields
    /\ r.amount_minor \in Nat \ {0}
    /\ r.category \in CategorySet
    /\ r.description # <<>>
    /\ Len(r.description) <= MaxDescriptionLength
    /\ IsValidDate(r.date)

\* the step answers an update or a delete with an error status
RejectsCall ==
    \E i \in 1..Len(calls) :
        /\ calls[i].pc = "sent"
        /\ calls[i].kind # "GET"
        /\ Len(calls') = Len(calls)
        /\ calls'[i].pc = "done"
        /\ ~IsOk(calls'[i].status)

\* the step answers a create with 400
RejectsPost ==
    \E i \in 1..Len(posts) :
        /\ posts[i].pc = "sent"
        /\ Len(posts') = Len(posts)
        /\ posts'[i].pc = "done"
        /\ posts'[i].status = 400

\* C7: whatever creates, updates and deletes the form, the edit modal
\* (which checks the amount only) and the delete button send, every stored
\* record has all its fields, amount_minor > 0, a category of the fixed
\* set, a non-empty description of at most 500 characters and a valid
\* date; and a step that rejects a request leaves the store as it was.
C7_NoInvalidWrites ==
    /\ [](\A r \in store : ValidRecord(r))
    /\ [][(RejectsCall \/ RejectsPost) => store' = store]_vars

\* the modal's update with an empty description and a positive amount has
\* been answered 400
C7_Witness ==
    \E i \in 1..Len(calls) :
        /\ calls[i].kind = "PUT"
        /\ calls[i].pc = "done"
        /\ calls[i].status = 400
        /\ calls[i].req.body.description = <<>>
        /\ calls[i].req.body.amount > 0
        /\ calls[i].details = <<"description">>

\* an update of the modal has changed a record
C7_WitnessUpdated ==
    \E r \in store : r.id \in WriteIds /\ r # Seed(r.id)

----------------------------------------------------------------------------
(* CSV export *)

ExportCalls == {i \in 1..Len(calls) : calls[i].kind = "EXPORT"}

\* the stored record at place n of the records S in the order sort
RecordAt(S, sort, n) ==
    CHOOSE r \in S : Cardinality({q \in S : Before(q, r, sort)}) = n - 1

\* C11: an export request carries the sort order and the category filter
\* of the list (no category when the filter is empty) and neither page nor
\* limit, and the exported file has, after the headers, one row for every
\* stored record matching that filter, in that sort order.
C11_ExportFullSet ==
    /\ \A i \in ExportCalls :
          LET qs == calls[i].req.search
              c == calls[i].closure
          IN  /\ ~Has(qs, "page")
              /\ ~Has(qs, "limit")
              /\ Has(qs, "sort") /\ qs.sort = c.sortOrder
              /\ Has(qs, "category") <=> c.categoryFilter # ""
              /\ Has(qs, "category") => qs.category = c.categoryFilter
    /\ csv # <<>> =>
          LET S == MatchingRecords(csv.closure)
              rows == Tail(csv.lines)
          IN  /\ Len(rows) = Cardinality(S)
              /\ \A n \in 1..Len(rows) :
                    rows[n] = CsvRow(Expense(RecordAt(S, csv.closure.sortOrder, n)))

\* a file with more rows than the page the list shows
C11_Witness ==
    /\ csv # <<>>
    /\ Len(expenses) = itemsPerPage
    /\ Len(csv.lines) - 1 > itemsPerPage
    /\ csv.closure = shown

----------------------------------------------------------------------------
(* Sort orders *)

Reverse(s) == [i \in 1..Len(s) |-> s[Len(s) + 1 - i]]

\* the held answer is the full result of an unpaginated query
FullResult == Answered /\ query.page = 0 /\ query.limit = 0

\* the full result of the held query asked in the order sort
FullResultIn(sort) ==
    Query(store, getExpenses([query EXCEPT !.sort = sort]).search).data

OrderedBy(data, sort) ==
    \A i, j \in 1..Len(data) :
        i < j =>
            \/ IF sort = "date_asc" THEN DateLess(data[i].date, data[j].date)
                                    ELSE DateLess(data[j].date, data[i].date)
            \/ /\ data[i].date = data[j].date
               /\ data[i].created_at < data[j].created_at

DatesDiffer(data) ==
    \A i, j \in 1..Len(data) : i # j => data[i].date # data[j].date

C12_WitnessReverse ==
    /\ FullResult
    /\ SortAsked = "date_asc"
    /\ Len(response.data) = 2
    /\ DatesDiffer(response.data)

----------------------------------------------------------------------------
(* GET /stats over a filled store *)

MaxStatSeeds == 8   \* records the store is drawn from

StatSeedDates ==
    <<<<2024, 1, 10>>, <<2024, 1, 15>>, <<2024, 2, 1>>, <<2023, 12, 31>>,
      <<2024, 3, 5>>, <<2024, 4, 5>>, <<2024, 5, 5>>, <<2024, 6, 5>>,
      <<2023, 2, 7>>>>

StatSeedCategories ==
    <<"Food", "Transport", "Food", "Bills", "Food", "Other", "Food",
      "Transport", "Food">>

StatSeedAmounts == <<10050, 5000, 2000, 500, 1, 999, 100, 100, 300>>

StatSeed(i) ==
    [id |-> i,
     amount_minor |-> StatSeedAmounts[((i - 1) % 9) + 1],
     category |-> StatSeedCategories[((i - 1) % 9) + 1],
     description |-> <<"L">>,
     date |-> StatSeedDates[((i - 1) % 9) + 1],
     created_at |-> i,
     idempotency_key |-> NoKey]

InitStats ==
    /\ InitClient
    /\ \E ids \in SUBSET (1..MaxStatSeeds) : store = {StatSeed(i) : i \in ids}
    /\ nextId = MaxStatSeeds + 1
    /\ InitList(0)

NextStats ==
    \/ ShowCharts
    \/ ShowExpenses
    \/ StatsResponse
    \/ StatsFails

SpecStats == InitStats /\ [][NextStats]_vars

RECURSIVE SumCounts(_)
SumCounts(entries) ==
    IF entries = <<>> THEN 0
    ELSE Head(entries).count + SumCounts(Tail(entries))

InMonth(m) == {r \in store : MonthOf(r.date) = m}

InCategory(c) == {r \in store : r.category = c}

\* C13: the stats request carries neither filter nor page, and the stats
\* hold exactly one monthly entry per calendar month with a stored record,
\* in ascending order, and exactly one category entry per category with a
\* stored record, whatever part of the store a list page holds; the total
\* of an entry is the sum of the amounts and its count the number of the
\* stored records of its month or category, and the monthly totals and
\* the category totals both add up to the sum over all stored records.
C13_Aggregates ==
    /\ (charts # NoCharts /\ charts.call # <<>>) =>
            DOMAIN charts.call = {"endpoint"}
    /\ (charts # NoCharts /\ charts.stats # <<>>) =>
        LET m == charts.stats.monthly
            c == charts.stats.categories
        IN  /\ {m[i].month : i \in 1..Len(m)} = {MonthOf(r.date) : r \in store}
            /\ \A i, j \in 1..Len(m) :
                  i < j => MonthLess(m[i].month, m[j].month)
            /\ \A i \in 1..Len(m) :
                  /\ m[i].total = SumRecords(InMonth(m[i].month))
                  /\ m[i].count = Cardinality(InMonth(m[i].month))
            /\ {c[i].category : i \in 1..Len(c)} = {r.category : r \in store}
            /\ \A i, j \in 1..Len(c) : i # j => c[i].category # c[j].category
            /\ \A i \in 1..Len(c) :
                  /\ c[i].total = SumRecords(InCategory(c[i].category))
                  /\ c[i].count = Cardinality(InCategory(c[i].category))
            /\ SumTotals(m) = SumRecords(store)
            /\ totalSpending = SumRecords(store)
            /\ SumCounts(m) = Cardinality(store)
            /\ SumCounts(c) = Cardinality(store)

\* stats over every seed record: more months than the trend shows, a
\* month and a category of several records
C13_Witness ==
    /\ ChartsDrawn
    /\ Len(charts.stats.monthly) > Len(MonthsShown)
    /\ \E i \in 1..Len(charts.stats.monthly) : charts.stats.monthly[i].count > 1
    /\ \E i \in 1..Len(charts.stats.categories) :
          charts.stats.categories[i].count > 1
    /\ SumCounts(charts.stats.monthly) = MaxStatSeeds

----------------------------------------------------------------------------
(* Edits and deletes over a store of records created earlier *)

MaxEdits == 2       \* updates and deletes sent in one behaviour

\* a record created with an idempotency key
KeyedSeed(i) == [Seed(i) EXCEPT !.idempotency_key = i]

InitEdits ==
    /\ store = {KeyedSeed(i) : i \in WriteIds}
    /\ nextId = Cardinality(WriteIds) + 1
    /\ InitClient
    /\ InitList(MaxEdits)

NextEdits ==
    \/ HandleEditClick
    \/ SetEditAmount(EditAmountTexts)
    \/ CancelEdit
    \/ HandleEditSubmit
    \/ HandleDeleteClick
    \/ \E i \in 1..Len(calls) : GetResponse(i)
    \/ \E i \in 1..Len(calls) : PutResponse(i)
    \/ \E i \in 1..Len(calls) : DeleteResponse(i)
    \/ ListServer

SpecEdits == InitEdits /\ [][NextEdits]_vars

\* the id a PUT or DELETE call addresses
CallId(c) == c.req.endpoint[2]

\* the step answers the update call i with 200
UpdateStep(i) ==
    /\ calls[i].kind = "PUT"
    /\ calls[i].pc = "sent"
    /\ Len(calls') = Len(calls)
    /\ calls' = [calls EXCEPT ![i] = calls'[i]]
    /\ calls'[i].pc = "done"
    /\ calls'[i].status = 200

\* C14: an update that succeeds sends amount, category, description and
\* date only and leaves the number of records and their ids as they were,
\* every other record unchanged, and the updated record with the id,
\* created_at and idempotency_key it had and the four fields it was sent.
C14_UpdateFrame ==
    [][\A i \in 1..Len(calls) :
          UpdateStep(i) =>
              LET id == CallId(calls[i])
                  body == calls[i].req.body
              IN  /\ DOMAIN body = {"amount", "category", "description", "date"}
                  /\ Cardinality(store') = Cardinality(store)
                  /\ {r.id : r \in store'} = {r.id : r \in store}
                  /\ \A r \in store : r.id # id => r \in store'
                  /\ \A r \in store, q \in store' :
                        (r.id = id /\ q.id = id) =>
                            /\ q.created_at = r.created_at
                            /\ q.idempotency_key = r.idempotency_key
                            /\ q.amount_minor = toMinorUnits(body.amount)
                            /\ q.category = body.category
                            /\ q.description = body.description
                            /\ q.date = body.date
                  /\ calls'[i].data.id = id]_vars

\* a record created with a key has been given another amount, next to a
\* record that was not updated
C14_Witness ==
    /\ Cardinality(store) = Cardinality(WriteIds)
    /\ \E r \in store :
          /\ r.amount_minor # KeyedSeed(r.id).amount_minor
          /\ r.idempotency_key = r.id
          /\ r.created_at = KeyedSeed(r.id).created_at
    /\ \E r \in store : r = KeyedSeed(r.id)

----------------------------------------------------------------------------
(* Requests for a deleted record *)

\* ids are given out in sequence and never again: an id below nextId that
\* no stored record has is the id of a deleted record
DeletedIds == {id \in 1..(nextId - 1) : ById(store, id) = {}}

\* get(id): the record or NotFoundError
GetById(s, id) ==
    IF ById(s, id) = {} THEN [status |-> 404, error |-> "Expense not found"]
    ELSE [status |-> 200, data |-> Expense(CHOOSE r \in ById(s, id) : TRUE)]

\* the step answers the update or delete call i
AnswerStep(i) ==
    /\ calls[i].kind \in {"PUT", "DELETE"}
    /\ calls[i].pc = "sent"
    /\ Len(calls') = Len(calls)
    /\ calls' = [calls EXCEPT ![i] = calls'[i]]
    /\ calls'[i].pc = "done"

\* the step is the handler of call i going on after a failed update or
\* delete
ThrowStep(i) ==
    /\ calls[i].kind \in {"PUT", "DELETE"}
    /\ calls[i].pc = "done"
    /\ calls[i].status >= 400
    /\ \/ calls' = Remove(calls, i)
       \/ \E c \in {fetchExpenses(calls[i].closure)} :
             calls' = Append(Remove(calls, i), c)

NotFoundMessage == <<"Expense not found">>

\* a deleted record stays deleted, and a get of its id fails with 404
StaysDeleted ==
    /\ [](\A id \in DeletedIds : GetById(store, id).status = 404)
    /\ [][DeletedIds \subseteq DeletedIds']_vars

\* a failed update or delete sets the list's error to the message thrown,
\* and a failed delete clears the confirmation and starts no fetch
ThrownToList ==
    [][\A i \in 1..Len(calls) :
          ThrowStep(i) =>
              /\ listError' = CallError(calls[i])
              /\ listError' # <<>>
              /\ calls[i].status = 404 => listError' = NotFoundMessage
              /\ calls[i].kind = "DELETE" =>
                    /\ deletingId' = NoId
                    /\ calls' = Remove(calls, i)
                    /\ isLoading' = isLoading]_vars

\* C15 as stated: every update or delete of a deleted record's id is
\* answered with 404 and leaves the store unchanged.
C15_DeletedIdNotFound ==
    [][\A i \in 1..Len(calls) :
          (AnswerStep(i) /\ CallId(calls[i]) \in DeletedIds) =>
              /\ calls'[i].status = 404
              /\ store' = store]_vars

\* C15 (amended): a deleted record stays deleted; every later update or
\* delete of its id fails and leaves the store unchanged, with 404, or
\* with 400 for an update whose body is invalid (validation comes before
\* the store); the failure is thrown to the list, which sets its error
\* and, for a delete, clears the confirmation without a refetch.
C15_DeletedIdFails ==
    /\ StaysDeleted
    /\ [][\A i \in 1..Len(calls) :
            (AnswerStep(i) /\ CallId(calls[i]) \in DeletedIds) =>
                /\ store' = store
                /\ IF calls[i].kind = "PUT" /\ validate(calls[i].req.body) # {}
                   THEN calls'[i].status = 400
                   ELSE calls'[i].status = 404]_vars
    /\ ThrownToList

\* a second delete of a deleted record was answered with 404 and the list
\* shows the error, the confirmation cleared and no fetch started
C15_Witness ==
    /\ DeletedIds # {}
    /\ listError = NotFoundMessage
    /\ deletingId = NoId
    /\ calls = <<>>
    /\ callsLeft = MaxEdits - 2
    /\ ~ModalOpen

\* an update of a deleted record was answered with 404
C15_WitnessUpdate ==
    \E i \in 1..Len(calls) :
        /\ calls[i].kind = "PUT"
        /\ calls[i].pc = "done"
        /\ calls[i].status = 404
        /\ CallId(calls[i]) \in DeletedIds

----------------------------------------------------------------------------
(* Validation messages *)

\* the field a message of the form or an entry of details[] is about
FieldOf(msg) ==
    CASE msg = "Please enter a valid amount greater than 0" -> "amount"
      [] msg = "Please enter a description" -> "description"
      [] msg = "Please select a date" -> "date"
      [] OTHER -> msg

FieldsOf(err) == {FieldOf(err[i]) : i \in 1..Len(err)}

\* the fields of a form that break a rule of the form's own checks
FormViolations(f) ==
    {x \in {"amount", "description", "date"} :
        \/ x = "amount" /\ ( \/ isNaN(parseFloat(f.amount))
                             \/ parseFloat(f.amount).milli <= 0 )
        \/ x = "description" /\ trim(f.description) = <<>>
        \/ x = "date" /\ f.date = <<>>}

\* the step is a submission the form's own checks refuse
RefusedByForm ==
    /\ posts' = posts
    /\ error' # <<>>
    /\ FormViolations(rendered) # {}
    /\ <<amount, category, description, date>>' =
          <<amount, category, description, date>>
    /\ rendered' = rendered

\* C16: the error shown for a submission lists every violated field: all
\* the fields the form's checks find violated when it refuses the
\* submission itself, and all the fields of the request that break a rule
\* when the back end answers 400.
C16_AllViolationsListed ==
    /\ [][RefusedByForm => FormViolations(rendered) \subseteq FieldsOf(error')]_vars
    /\ [](\A i \in 1..Len(posts) :
            posts[i].status = 400 =>
                FieldsOf(RequestError([details |-> posts[i].details,
                                       error |-> "Validation failed"]))
                    = validate(posts[i].req.body))

----------------------------------------------------------------------------
(* Amounts from the form to the store and back to the list *)

MaxCents == 120     \* the amounts typed: every one from 0.01 up to here

\* amounts beyond MaxCents that are typed too
LargeCents == {10050, 99999}

\* the texts typed: a positive amount with at most two fractional digits
MoneyTexts == {toString(c * 10) : c \in (1..MaxCents) \cup LargeCents}

\* the form is open and filled in with an amount of MoneyTexts
InitMoney ==
    /\ store = {}
    /\ nextId = 1
    /\ \E t \in MoneyTexts :
          InitClientWith([InitialForm EXCEPT !.amount = t,
                                             !.description = <<"L">>], TRUE)
    /\ InitList(1)

NextMoney ==
    \/ /\ \/ HandleSubmit
          \/ Commit
          \/ Server
       /\ UNCHANGED <<queryVars, chartVars, listVars>>
    \/ /\ \E i \in 1..Len(posts) : PostResponse(i)
       /\ RefreshEffect
       /\ UNCHANGED <<queryVars, chartVars>>
    \/ \E i \in 1..Len(calls) : GetResponse(i)
    \/ ListServer

SpecMoney == InitMoney /\ [][NextMoney]_vars

----------------------------------------------------------------------------
(* The list shown and the list asked for *)

FetchesInFlight == {i \in 1..Len(calls) : calls[i].kind = "GET"}

\* the answer to a fetch made with the current filter, sort order and page
CurrentAnswer ==
    Query(store, getExpenses(FetchParams(categoryFilter, sortOrder,
                                         currentPage)).search)

\* no fetch is in flight and the last one that completed succeeded
Settled ==
    /\ FetchesInFlight = {}
    /\ ~isLoading
    /\ listError = <<>>
    /\ shown # <<>>

\* C18: whenever no fetch is in flight and the last completed fetch
\* succeeded, the expenses, totalPages and totalItems shown are the answer
\* to a request made with the current filter, sort order and page,
\* whatever the order in which the answers of overlapping fetches arrived.
C18_ShownIsCurrent ==
    Settled =>
        /\ shown = Closure
        /\ expenses = CurrentAnswer.data
        /\ totalPages = CurrentAnswer.totalPages
        /\ totalItems = CurrentAnswer.total

----------------------------------------------------------------------------
(* What a successful create has stored *)

\* the form is open and filled in; the user may choose another category
\* between the attempts
InitRetry ==
    /\ store = {}
    /\ nextId = 1
    /\ \E f \in FilledForms : InitClientWith(f, TRUE)
    /\ InitList(MaxPosts)

NextRetry ==
    /\ \/ HandleSubmit
       \/ Commit
       \/ Server
       \/ \E i \in 1..Len(posts) : PostResponse(i)
       \/ \E i \in 1..Len(posts) : PostFails(i)
       \/ SetCategory
    /\ UNCHANGED <<queryVars, chartVars, listVars>>

SpecRetry == InitRetry /\ [][NextRetry]_vars

\* the record r holds the values of the create request p
HoldsInput(r, p) ==
    /\ r.amount_minor = toMinorUnits(p.req.body.amount)
    /\ r.category = p.req.body.category
    /\ r.description = p.req.body.description
    /\ r.date = p.req.body.date

\* the step is handleSubmit going on after createExpense has returned for
\* the call i: resetForm and onExpenseCreated
TreatedAsCreated(i) ==
    /\ posts[i].pc = "done"
    /\ posts[i].waiting
    /\ IsOk(posts[i].status)
    /\ refreshTrigger' # refreshTrigger
    /\ \A j \in 1..Len(posts) :
          (j # i /\ posts[j].waiting) => \E k \in 1..Len(posts') : posts'[k] = posts[j]

\* C19: whenever the form treats a create as successful, the store holds a
\* record with the amount, category, description and date of that request,
\* also when an earlier attempt with the same key was stored, its answer
\* was lost and the fields were changed before the retry.
C19_CreatedHoldsInput ==
    [][\A i \in 1..Len(posts) :
          TreatedAsCreated(i) => \E r \in store : HoldsInput(r, posts[i])]_vars

----------------------------------------------------------------------------
(* Pages and deletes *)

\* the list over the filled store, with the page buttons and the delete
\* buttons
NextPages ==
    \/ PreviousPage
    \/ NextPage
    \/ HandleDeleteClick
    \/ TimerFires
    \/ \E i \in 1..Len(calls) : GetResponse(i)
    \/ \E i \in 1..Len(calls) : DeleteResponse(i)
    \/ ListServer

SpecPages == InitStored /\ [][NextPages]_vars

\* the pagination controls are rendered: inside the table, for more than
\* one page
PaginationShown == TableShown /\ totalPages > 1

\* the "No expenses found" box is rendered
EmptyShown == ~isLoading /\ listError = <<>> /\ expenses = <<>>

\* C20: whenever no fetch is in flight, the current page is between 1 and
\* max(1, totalPages), and the list does not show an empty page without
\* pagination controls while a record matches the filter.
C20_PageInRange ==
    FetchesInFlight = {} =>
        /\ currentPage >= 1
        /\ currentPage <= (IF totalPages > 1 THEN totalPages ELSE 1)
        /\ (EmptyShown /\ MatchingRecords(Closure) # {}) => PaginationShown

----------------------------------------------------------------------------
(* The page after a change of the filter or the sort order *)

\* C21: a change of the category filter or of the sort order sets
\* currentPage to 1, and once the fetches it started have all completed
\* successfully the list shows page 1 of the new filter and sort order.
C21_ResetShowsPageOne ==
    /\ [][(categoryFilter' # categoryFilter \/ sortOrder' # sortOrder)
              => currentPage' = 1]_vars
    /\ []((filterChanged /\ Settled) =>
            /\ currentPage = 1
            /\ shown = Closure
            /\ expenses = CurrentAnswer.data)


----------------------------------------------------------------------------
(* Delete confirmation: the clicks on Delete, the timers, the answers *)

MaxDeletes == 2     \* DELETE requests sent in one behaviour

InitDeletes ==
    /\ store = {Seed(i) : i \in WriteIds}
    /\ nextId = Cardinality(WriteIds) + 1
    /\ InitClient
    /\ InitList(MaxDeletes)

NextDeletes ==
    \/ HandleDeleteClick
    \/ TimerFires
    \/ \E i \in 1..Len(calls) : GetResponse(i)
    \/ \E i \in 1..Len(calls) : DeleteResponse(i)
    \/ ListServer

SpecDeletes == InitDeletes /\ [][NextDeletes]_vars

\* the timer of the latest first click runs: it is the only one pending
OwnTimerStep ==
    /\ timers = "one"
    /\ timers' = "none"
    /\ calls' = calls

\* the answer to a DELETE for the row that asks for confirmation is handled:
\* that row's Delete had been clicked a second time
ConfirmedStep ==
    \E i \in 1..Len(calls) :
        /\ calls[i].kind = "DELETE"
        /\ calls[i].pc = "done"
        /\ CallId(calls[i]) = deletingId
        /\ calls' # calls

\* C22: once a first click on X's Delete has armed the confirmation, the
\* next click on X's Delete sends the DELETE for X if it comes before the
\* timer of that first click runs and no other row's Delete is clicked in
\* between: until then X's confirmation stays armed, it is taken away only
\* by the timer of X's first click, by a click on another row, or by the
\* answer to X's own DELETE, and never by a timer an earlier click started.
C22_ArmedUntilOwnTimer ==
    [][(deletingId # NoId /\ deletingId' = NoId)
          => (OwnTimerStep \/ ConfirmedStep)]_vars


\* the DELETE requests for expense x among the calls cs
DeletesFor(cs, x) ==
    Cardinality({i \in 1..Len(cs) :
                    cs[i].kind = "DELETE" /\ CallId(cs[i]) = x})

\* the ids given out so far
IdsGiven == 1..(nextId - 1)

\* expense x is a row of the table
IsRow(x) == \E i \in Rows : expenses[i].id = x

\* C23: a DELETE request for expense X is sent only by a click on the Delete
\* button of X's row made while deletingId = X.  A click on X's Delete while
\* deletingId is something else (nothing armed, or another expense's
\* confirmation) sends nothing and deletes nothing: it only makes X the
\* expense that asks for confirmation.
C23_DeleteOnlyWhenArmed ==
    [][\A x \in IdsGiven :
          /\ DeletesFor(calls', x) > DeletesFor(calls, x) =>
                /\ deletingId = x
                /\ IsRow(x)
                /\ ~ModalOpen
                /\ calls' = Append(calls,
                                   NewCall("DELETE", deleteExpense(x), Closure))
                /\ deletingId' = x
          /\ (deletingId # x /\ deletingId' = x) =>
                /\ calls' = calls
                /\ store' = store
                /\ expenses' = expenses]_vars

\* expense 2 was clicked while the confirmation of expense 1 was armed, so
\* that two timers are pending, and clicked again: one DELETE, for expense
\* 2, is on its way and both records are still stored
C23_Witness ==
    /\ timers = "many"
    /\ deletingId = 2
    /\ callsLeft = MaxDeletes - 1
    /\ DeletesFor(calls, 2) = 1
    /\ DeletesFor(calls, 1) = 0
    /\ \E i \in 1..Len(calls) : calls[i].kind = "DELETE" /\ calls[i].pc = "sent"
    /\ {r.id : r \in store} = WriteIds

====
